---- MODULE Spec2Model ----
(***************************************************************************)
(* Model of service/src/media_control.rs: pausing and resuming MPRIS media *)
(* players over the D-Bus session bus.                                     *)
(*                                                                         *)
(* The program state is the process-wide PAUSED_PLAYERS list and, for each *)
(* in-flight invocation of send_play / send_pause / send_play_pause, its   *)
(* position (pc) and local variables.  Every awaited bus call is one step  *)
(* whose outcome is chosen by the bus: the call may fail, and a player     *)
(* answers only while it is registered on the bus.                         *)
(***************************************************************************)
EXTENDS Naturals, Sequences, FiniteSets

\* ---------------------------------------------------------------- bounds

\* Number of media players that can appear on the session bus.
MaxPlayers == 2

\* Number of callers that can have an operation in flight at the same time.
NumTasks == 2

\* Total number of public operations invoked in one behaviour.
MaxCalls == 3

\* ------------------------------------------------------- names on the bus

\* A bus name is the sequence of its dot-separated elements.
PlayerIds == <<"vlc", "mpv", "firefox", "spotify", "chromium">>

Players == 1 .. MaxPlayers

Tasks == 1 .. NumTasks

\* "org.mpris.MediaPlayer2." : the prefix ends with a dot, so a matching
\* name has at least one further element.
MPRIS_PREFIX == <<"org", "mpris", "MediaPlayer2">>

PlayerName(i) == MPRIS_PREFIX \o <<PlayerIds[i]>>

DBusName == <<"org", "freedesktop", "DBus">>

ServiceName == <<"org", "kairpods", "manager">>

\* A prefix test that compares the first element only.
StartsWithOrg(name) == name[1] = MPRIS_PREFIX[1]

\* name.starts_with("org.mpris.MediaPlayer2.")
StartsWithMpris(name) ==
    /\ Len(name) > Len(MPRIS_PREFIX)
    /\ SubSeq(name, 1, Len(MPRIS_PREFIX)) = MPRIS_PREFIX

RECURSIVE RegisteredSeq(_, _)
RegisteredSeq(reg, i) ==
    IF i > MaxPlayers THEN <<>>
    ELSE (IF i \in reg THEN <<PlayerName(i)>> ELSE <<>>) \o RegisteredSeq(reg, i + 1)

\* dbus_proxy.list_names(): every name on the bus, in the bus's order.
ListNames(reg) == <<DBusName>> \o RegisteredSeq(reg, 1) \o <<ServiceName>>

\* names.iter().filter(|name| name.starts_with(..)).collect()
FilterMpris(names) == SelectSeq(names, StartsWithMpris)

IsRegistered(reg, name) == \E i \in reg : PlayerName(i) = name

\* ------------------------------------------------------ bus call outcomes

Statuses == {"Playing", "Paused", "Stopped"}

\* What a PlaybackStatus read can come back with: no connection, an error
\* reply, a body that does not deserialize, a string, or another variant.
ErrorReplies ==
    { [kind |-> "ErrConnect", val |-> ""],
      [kind |-> "ErrCall", val |-> ""],
      [kind |-> "ErrDeserialize", val |-> ""] }

ValueReplies ==
    { [kind |-> "Str", val |-> s] : s \in Statuses } \cup { [kind |-> "Other", val |-> ""] }

ProbeReplies(reg, name) ==
    ErrorReplies \cup (IF IsRegistered(reg, name) THEN ValueReplies ELSE {})

\* is_player_playing: Err on a failed call, otherwise Ok(status == "Playing").
IsPlayerPlaying(reply) ==
    CASE reply.kind = "Str"   -> [ok |-> TRUE, val |-> (reply.val = "Playing")]
      [] reply.kind = "Other" -> [ok |-> TRUE, val |-> FALSE]
      [] OTHER                -> [ok |-> FALSE, val |-> FALSE]

\* The probe came back Ok(true): the player was observed Playing.
ProbedPlaying(reply) == IsPlayerPlaying(reply) = [ok |-> TRUE, val |-> TRUE]

\* A probe that takes an unreadable status for Playing.
WasPlayingOrUnknown(result) == ~result.ok \/ result.val

\* if let Ok(was_playing) = is_player_playing(..).await { if was_playing { ..
WasPlaying(result) == result.ok /\ result.val

\* An unwrap that takes a failed probe for Playing.
UnwrapOrTrue(result) == IF result.ok THEN result.val ELSE TRUE

\* is_player_playing(..).await.unwrap_or(false)
UnwrapOrFalse(result) == IF result.ok THEN result.val ELSE FALSE

\* connection.call_method(..): answered only by a player that is on the bus.
CallOutcomes(reg, name) ==
    {"ErrCall"} \cup (IF IsRegistered(reg, name) THEN {"Ok"} ELSE {})

\* send_mpris_command_to_player: Connection::session() may fail first.
DispatchOutcomes(reg, name) == {"ErrConnect"} \cup CallOutcomes(reg, name)

\* A dispatch that takes a failed Connection::session() for success.
DispatchOkOrConnect(outcome) == outcome # "ErrCall"

\* send_mpris_command_to_player(..) is Ok(())
DispatchOk(outcome) == outcome = "Ok"

\* ------------------------------------------------------------------ state

VARIABLES
    PAUSED_PLAYERS,   \* static PAUSED_PLAYERS: Mutex<Vec<String>>
    holders,          \* the tasks holding a guard of that mutex
    registered,       \* the players currently on the session bus
    pc,               \* per task: position in the operation it runs
    op,               \* per task: the operation it runs or ran last
    frame,            \* per task: the local variables of the operation
    hist,             \* per task: what the operation has done (history)
    pausedByUs,       \* players a send_pause probed Playing and then paused
    unresumed,        \* of those, the ones not sent Play since
    calls             \* number of operations invoked so far

vars == <<PAUSED_PLAYERS, holders, registered, pc, op, frame, hist, pausedByUs, unresumed, calls>>

NoName == <<>>

\* The locals of send_play, send_pause and send_mpris_command.
EmptyFrame ==
    [ mpris_services       |-> <<>>,
      idx                  |-> 0,
      paused_players       |-> <<>>,
      successful           |-> 0,
      preferred_service    |-> NoName,
      was_playing          |-> FALSE,
      was_playing_fallback |-> FALSE,
      last_error           |-> FALSE,
      result               |-> "None" ]

\* History of one invocation: how its player discovery ended, whether any
\* Connection::session() of its own succeeded, the probes and dispatches it
\* made, the Paused-Set it started from, whether the bus held no player
\* throughout, and the pause/play operation this caller ran before it.
NewHist(paused, reg, prev) ==
    [ discovery     |-> "none",
      connected     |-> FALSE,
      probed        |-> <<>>,
      sent          |-> <<>>,
      pausedAtStart |-> paused,
      noPlayers     |-> (reg = {}),
      prevOp        |-> prev ]

\* How discovery ended: the listing failed, found no player, or found some.
Discovery(listed, services) ==
    IF ~listed THEN "error" ELSE IF services = <<>> THEN "empty" ELSE "found"

Probe(name, playing) == [p |-> name, playing |-> playing]

Dispatch(method, name, ok) == [m |-> method, p |-> name, ok |-> ok]

\* The invocation's latest probe found this player Playing.
LastProbedPlaying(h, name) ==
    /\ h.probed # <<>>
    /\ h.probed[Len(h.probed)] = Probe(name, TRUE)

PrevOf(t) == IF op[t] \in {"pause", "play"} THEN op[t] ELSE hist[t].prevOp

Init ==
    /\ PAUSED_PLAYERS = <<>>
    /\ holders = {}
    /\ registered \in SUBSET Players
    /\ pc = [t \in Tasks |-> "idle"]
    /\ op = [t \in Tasks |-> "none"]
    /\ frame = [t \in Tasks |-> EmptyFrame]
    /\ hist = [t \in Tasks |-> [NewHist(<<>>, {}, "none") EXCEPT !.noPlayers = FALSE]]
    /\ pausedByUs = {}
    /\ unresumed = {}
    /\ calls = 0

\* An operation that hands a failed command on to its caller.
ReturnOrRaise(t, res) ==
    /\ pc' = [pc EXCEPT ![t] = IF res = "Err" THEN "raised" ELSE "idle"]
    /\ frame' = [frame EXCEPT ![t] = [EmptyFrame EXCEPT !.result = res]]

\* The operation returns to its caller: its locals are dropped.
Return(t, res) ==
    /\ pc' = [pc EXCEPT ![t] = "idle"]
    /\ frame' = [frame EXCEPT ![t] = [EmptyFrame EXCEPT !.result = res]]

Invoke(t, o) ==
    /\ pc[t] = "idle"
    /\ calls < MaxCalls
    /\ calls' = calls + 1
    /\ op' = [op EXCEPT ![t] = o]

\* ------------------------------------------------------------- send_play

\* PAUSED_PLAYERS.lock(): parking_lot's mutex is acquired only while no
\* guard is alive; it is not reentrant.
CanLock == holders = {}

\* A guard bound to a local that lives until the function returns.
GuardKept(t) == {t}

\* The guard of `PAUSED_PLAYERS.lock().clone()` is a temporary: it is
\* dropped at the end of the statement, before the first dispatch.
GuardAfterRead(t) == {}

\* The guard of `PAUSED_PLAYERS.lock().clear()` is dropped with the statement.
GuardAfterClear(t) == {}

\* A resume that takes the players now on the bus instead of the stored ones.
ReadDiscovered(stored) == FilterMpris(ListNames(registered))

\* let paused_players = PAUSED_PLAYERS.lock().clone()
ReadPaused(stored) == stored

\* A resume that forgets to clear.
NotCleared == PAUSED_PLAYERS

\* PAUSED_PLAYERS.lock().clear()
ClearedPaused == <<>>

\* send_play up to its first await: clone the list, return if it is empty.
SendPlay(t) ==
    /\ Invoke(t, "play")
    /\ CanLock
    /\ holders' = GuardAfterRead(t)
    /\ hist' = [hist EXCEPT ![t] = NewHist(PAUSED_PLAYERS, registered, PrevOf(t))]
    /\ LET cloned == ReadPaused(PAUSED_PLAYERS) IN
         IF cloned = <<>>
         THEN Return(t, "Unit")
         ELSE /\ pc' = [pc EXCEPT ![t] = "play_loop"]
              /\ frame' = [frame EXCEPT ![t] =
                              [EmptyFrame EXCEPT !.paused_players = cloned, !.idx = 1]]
    /\ UNCHANGED <<PAUSED_PLAYERS, registered, pausedByUs, unresumed>>

\* A resume loop that gives up at the first failed dispatch.
PlayDispatchStopOnError(t) ==
    /\ pc[t] = "play_loop"
    /\ LET f == frame[t]
           name == f.paused_players[f.idx]
       IN \E outcome \in DispatchOutcomes(registered, name) :
            /\ hist' = [hist EXCEPT
                           ![t].sent = Append(@, Dispatch("Play", name, DispatchOk(outcome))),
                           ![t].connected = @ \/ outcome # "ErrConnect"]
            /\ unresumed' = unresumed \ {name}
            /\ frame' = [frame EXCEPT
                           ![t].successful = IF DispatchOk(outcome) THEN @ + 1 ELSE @,
                           ![t].idx = @ + 1]
            /\ pc' = [pc EXCEPT ![t] =
                         IF f.idx = Len(f.paused_players) \/ ~DispatchOk(outcome)
                         THEN "play_clear" ELSE "play_loop"]
    /\ UNCHANGED <<PAUSED_PLAYERS, holders, registered, op, pausedByUs, calls>>

\* One iteration of `for player_name in &paused_players`.
PlayDispatch(t) ==
    /\ pc[t] = "play_loop"
    /\ LET f == frame[t]
           name == f.paused_players[f.idx]
       IN \E outcome \in DispatchOutcomes(registered, name) :
            /\ hist' = [hist EXCEPT
                           ![t].sent = Append(@, Dispatch("Play", name, DispatchOk(outcome))),
                           ![t].connected = @ \/ outcome # "ErrConnect"]
            /\ unresumed' = unresumed \ {name}
            /\ frame' = [frame EXCEPT
                           ![t].successful = IF DispatchOk(outcome) THEN @ + 1 ELSE @,
                           ![t].idx = @ + 1]
            /\ pc' = [pc EXCEPT ![t] =
                         IF f.idx = Len(f.paused_players) THEN "play_clear" ELSE "play_loop"]
    /\ UNCHANGED <<PAUSED_PLAYERS, holders, registered, op, pausedByUs, calls>>

\* After the loop: clear the stored players and return.
PlayClear(t) ==
    /\ pc[t] = "play_clear"
    /\ CanLock
    /\ PAUSED_PLAYERS' = ClearedPaused
    /\ holders' = GuardAfterClear(t)
    /\ Return(t, "Unit")
    /\ UNCHANGED <<registered, op, hist, pausedByUs, unresumed, calls>>

\* ------------------------------------------------------------ send_pause

\* A pause that records the player whatever the dispatch returned.
PushAlways(working, name, ok) == Append(working, name)

\* Ok(_) => paused_players.push(..); Err(e) => warn!(..)
PushIfPaused(working, name, ok) == IF ok THEN Append(working, name) ELSE working

\* A store that appends to what is stored.
StoreMerged(stored, working) == stored \o working

\* A store that also stores an empty working list.
StoreAlways(stored, working) == working

\* if paused_players.is_empty() { debug!(..) } else { *PAUSED_PLAYERS.lock() = paused_players }
StorePaused(stored, working) == IF working = <<>> THEN stored ELSE working

\* The guard of `*PAUSED_PLAYERS.lock() = paused_players` is dropped with
\* the statement.
GuardAfterStore(t) == {}

\* Where the pause loop goes after the player at index i.
PauseAfter(f) == IF f.idx = Len(f.mpris_services) THEN "pause_store" ELSE "pause_probe"

\* Connection::session().await
SendPause(t) ==
    /\ Invoke(t, "pause")
    /\ \E connected \in BOOLEAN :
         /\ hist' = [hist EXCEPT ![t] =
                        [NewHist(PAUSED_PLAYERS, registered, PrevOf(t))
                            EXCEPT !.discovery = IF connected THEN "none" ELSE "error",
                                   !.connected = connected]]
         /\ IF connected
            THEN /\ pc' = [pc EXCEPT ![t] = "pause_proxy"]
                 /\ frame' = [frame EXCEPT ![t] = EmptyFrame]
            ELSE Return(t, "Unit")
    /\ UNCHANGED <<PAUSED_PLAYERS, holders, registered, pausedByUs, unresumed>>

\* zbus::fdo::DBusProxy::new(&connection).await
PauseProxy(t) ==
    /\ pc[t] = "pause_proxy"
    /\ \E created \in BOOLEAN :
         IF created
         THEN /\ pc' = [pc EXCEPT ![t] = "pause_list"]
              /\ UNCHANGED <<frame, hist>>
         ELSE /\ Return(t, "Unit")
              /\ hist' = [hist EXCEPT ![t].discovery = "error"]
    /\ UNCHANGED <<PAUSED_PLAYERS, holders, registered, op, pausedByUs, unresumed, calls>>

\* dbus_proxy.list_names().await, the filter and the empty check.
PauseList(t) ==
    /\ pc[t] = "pause_list"
    /\ \E listed \in BOOLEAN :
         LET services == FilterMpris(ListNames(registered)) IN
         /\ hist' = [hist EXCEPT ![t].discovery = Discovery(listed, services)]
         /\ IF listed /\ services # <<>>
            THEN /\ pc' = [pc EXCEPT ![t] = "pause_probe"]
                 /\ frame' = [frame EXCEPT ![t].mpris_services = services, ![t].idx = 1]
            ELSE Return(t, "Unit")
    /\ UNCHANGED <<PAUSED_PLAYERS, holders, registered, op, pausedByUs, unresumed, calls>>

\* A pause loop that a failed probe ends.
PauseProbeStopOnError(t) ==
    /\ pc[t] = "pause_probe"
    /\ LET f == frame[t]
           name == f.mpris_services[f.idx]
       IN \E reply \in ProbeReplies(registered, name) :
            /\ hist' = [hist EXCEPT ![t].probed = Append(@, Probe(name, ProbedPlaying(reply)))]
            /\ IF WasPlaying(IsPlayerPlaying(reply))
               THEN /\ pc' = [pc EXCEPT ![t] = "pause_dispatch"]
                    /\ UNCHANGED frame
               ELSE /\ pc' = [pc EXCEPT ![t] =
                                 IF IsPlayerPlaying(reply).ok THEN PauseAfter(f) ELSE "pause_store"]
                    /\ frame' = [frame EXCEPT ![t].idx = @ + 1]
    /\ UNCHANGED <<PAUSED_PLAYERS, holders, registered, op, pausedByUs, unresumed, calls>>

\* is_player_playing(service_name).await for the player at idx.
PauseProbe(t) ==
    /\ pc[t] = "pause_probe"
    /\ LET f == frame[t]
           name == f.mpris_services[f.idx]
       IN \E reply \in ProbeReplies(registered, name) :
            /\ hist' = [hist EXCEPT ![t].probed = Append(@, Probe(name, ProbedPlaying(reply)))]
            /\ IF WasPlaying(IsPlayerPlaying(reply))
               THEN /\ pc' = [pc EXCEPT ![t] = "pause_dispatch"]
                    /\ UNCHANGED frame
               ELSE /\ pc' = [pc EXCEPT ![t] = PauseAfter(f)]
                    /\ frame' = [frame EXCEPT ![t].idx = @ + 1]
    /\ UNCHANGED <<PAUSED_PLAYERS, holders, registered, op, pausedByUs, unresumed, calls>>

\* A pause loop that gives up at the first failed dispatch.
PauseDispatchStopOnError(t) ==
    /\ pc[t] = "pause_dispatch"
    /\ LET f == frame[t]
           name == f.mpris_services[f.idx]
       IN \E outcome \in DispatchOutcomes(registered, name) :
            /\ hist' = [hist EXCEPT ![t].sent =
                           Append(@, Dispatch("Pause", name, DispatchOk(outcome)))]
            /\ frame' = [frame EXCEPT
                           ![t].paused_players = PushIfPaused(@, name, DispatchOk(outcome)),
                           ![t].idx = @ + 1]
            /\ pausedByUs' = IF DispatchOk(outcome) /\ LastProbedPlaying(hist[t], name)
                             THEN pausedByUs \cup {name} ELSE pausedByUs
            /\ unresumed' = IF DispatchOk(outcome) THEN unresumed \cup {name} ELSE unresumed
            /\ pc' = [pc EXCEPT ![t] =
                         IF DispatchOk(outcome) THEN PauseAfter(f) ELSE "pause_store"]
    /\ UNCHANGED <<PAUSED_PLAYERS, holders, registered, op, calls>>

\* A pause that publishes its working list after every push.
PauseDispatchPublishing(t) ==
    /\ pc[t] = "pause_dispatch"
    /\ LET f == frame[t]
           name == f.mpris_services[f.idx]
       IN \E outcome \in DispatchOutcomes(registered, name) :
            /\ hist' = [hist EXCEPT ![t].sent =
                           Append(@, Dispatch("Pause", name, DispatchOk(outcome)))]
            /\ frame' = [frame EXCEPT
                           ![t].paused_players = PushIfPaused(@, name, DispatchOk(outcome)),
                           ![t].idx = @ + 1]
            /\ pausedByUs' = IF DispatchOk(outcome) /\ LastProbedPlaying(hist[t], name)
                             THEN pausedByUs \cup {name} ELSE pausedByUs
            /\ unresumed' = IF DispatchOk(outcome) THEN unresumed \cup {name} ELSE unresumed
            /\ pc' = [pc EXCEPT ![t] = PauseAfter(f)]
    /\ PAUSED_PLAYERS' = frame'[t].paused_players
    /\ UNCHANGED <<holders, registered, op, calls>>

\* send_mpris_command_to_player("Pause", service_name).await
PauseDispatch(t) ==
    /\ pc[t] = "pause_dispatch"
    /\ LET f == frame[t]
           name == f.mpris_services[f.idx]
       IN \E outcome \in DispatchOutcomes(registered, name) :
            /\ hist' = [hist EXCEPT ![t].sent =
                           Append(@, Dispatch("Pause", name, DispatchOk(outcome)))]
            /\ frame' = [frame EXCEPT
                           ![t].paused_players = PushIfPaused(@, name, DispatchOk(outcome)),
                           ![t].idx = @ + 1]
            /\ pausedByUs' = IF DispatchOk(outcome) /\ LastProbedPlaying(hist[t], name)
                             THEN pausedByUs \cup {name} ELSE pausedByUs
            /\ unresumed' = IF DispatchOk(outcome) THEN unresumed \cup {name} ELSE unresumed
            /\ pc' = [pc EXCEPT ![t] = PauseAfter(f)]
    /\ UNCHANGED <<PAUSED_PLAYERS, holders, registered, op, calls>>

\* After the loop: store the working list unless it is empty, and return.
PauseStore(t) ==
    /\ pc[t] = "pause_store"
    /\ IF frame[t].paused_players = <<>>
       THEN UNCHANGED holders
       ELSE CanLock /\ holders' = GuardAfterStore(t)
    /\ PAUSED_PLAYERS' = StorePaused(PAUSED_PLAYERS, frame[t].paused_players)
    /\ Return(t, "Unit")
    /\ UNCHANGED <<registered, op, hist, pausedByUs, unresumed, calls>>

\* ------------------------------------- send_play_pause / send_mpris_command

\* A fallback loop that does not skip the player already tried.
NextFallbackNoSkip(services, preferred, i) == i

\* The first index from i on whose player is not the preferred one
\* (`if service_name_to_try.as_str() == preferred_service { continue; }`),
\* or Len + 1 when the fallback loop is exhausted.
RECURSIVE NextFallback(_, _, _)
NextFallback(services, preferred, i) ==
    IF i > Len(services) THEN i
    ELSE IF services[i] = preferred THEN NextFallback(services, preferred, i + 1)
    ELSE i

\* if let Some(e) = last_error { Err(Box::new(e)) } else { Err("No MPRIS players available") }
AllFailed(last_error) == "Err"

\* Connection::session().await?
SendPlayPause(t) ==
    /\ Invoke(t, "toggle")
    /\ \E connected \in BOOLEAN :
         /\ hist' = [hist EXCEPT ![t] =
                        [NewHist(PAUSED_PLAYERS, registered, PrevOf(t))
                            EXCEPT !.discovery = IF connected THEN "none" ELSE "error",
                                   !.connected = connected]]
         /\ IF connected
            THEN /\ pc' = [pc EXCEPT ![t] = "toggle_proxy"]
                 /\ frame' = [frame EXCEPT ![t] = EmptyFrame]
            ELSE Return(t, "Err")
    /\ UNCHANGED <<PAUSED_PLAYERS, holders, registered, pausedByUs, unresumed>>

\* zbus::fdo::DBusProxy::new(&connection).await?
ToggleProxy(t) ==
    /\ pc[t] = "toggle_proxy"
    /\ \E created \in BOOLEAN :
         IF created
         THEN /\ pc' = [pc EXCEPT ![t] = "toggle_list"]
              /\ UNCHANGED <<frame, hist>>
         ELSE /\ Return(t, "Err")
              /\ hist' = [hist EXCEPT ![t].discovery = "error"]
    /\ UNCHANGED <<PAUSED_PLAYERS, holders, registered, op, pausedByUs, unresumed, calls>>

\* dbus_proxy.list_names().await?, the filter and the empty check.
ToggleList(t) ==
    /\ pc[t] = "toggle_list"
    /\ \E listed \in BOOLEAN :
         LET services == FilterMpris(ListNames(registered)) IN
         /\ hist' = [hist EXCEPT ![t].discovery = Discovery(listed, services)]
         /\ IF ~listed THEN Return(t, "Err")
            ELSE IF services = <<>> THEN Return(t, "OkNone")
            ELSE /\ pc' = [pc EXCEPT ![t] = "toggle_probe"]
                 /\ frame' = [frame EXCEPT ![t].mpris_services = services, ![t].idx = 1]
    /\ UNCHANGED <<PAUSED_PLAYERS, holders, registered, op, pausedByUs, unresumed, calls>>

\* One iteration of the search for the active player; when the search ends
\* the preferred player is the playing one or else the first one.
ToggleProbe(t) ==
    /\ pc[t] = "toggle_probe"
    /\ LET f == frame[t]
           name == f.mpris_services[f.idx]
       IN \E reply \in ProbeReplies(registered, name) :
            /\ hist' = [hist EXCEPT ![t].probed = Append(@, Probe(name, ProbedPlaying(reply)))]
            /\ IF UnwrapOrFalse(IsPlayerPlaying(reply))
               THEN /\ pc' = [pc EXCEPT ![t] = "toggle_call"]
                    /\ frame' = [frame EXCEPT ![t].preferred_service = name,
                                              ![t].was_playing = TRUE]
               ELSE IF f.idx = Len(f.mpris_services)
               THEN /\ pc' = [pc EXCEPT ![t] = "toggle_call"]
                    /\ frame' = [frame EXCEPT ![t].preferred_service = Head(f.mpris_services),
                                              ![t].was_playing = FALSE]
               ELSE /\ pc' = [pc EXCEPT ![t] = "toggle_probe"]
                    /\ frame' = [frame EXCEPT ![t].idx = @ + 1]
    /\ UNCHANGED <<PAUSED_PLAYERS, holders, registered, op, pausedByUs, unresumed, calls>>

\* A toggle that keeps track of the playing player it toggled.
TogglePreferredTracking(t) ==
    /\ pc[t] = "toggle_call"
    /\ LET f == frame[t]
           name == f.preferred_service
           next == NextFallback(f.mpris_services, name, 1)
       IN \E outcome \in CallOutcomes(registered, name) :
            /\ hist' = [hist EXCEPT ![t].sent =
                           Append(@, Dispatch("PlayPause", name, DispatchOk(outcome)))]
            /\ IF DispatchOk(outcome) THEN Return(t, "OkSome")
               ELSE IF next > Len(f.mpris_services) THEN Return(t, AllFailed(FALSE))
               ELSE /\ pc' = [pc EXCEPT ![t] = "fallback_probe"]
                    /\ frame' = [frame EXCEPT ![t].idx = next]
    /\ PAUSED_PLAYERS' = IF frame[t].was_playing /\ pc'[t] = "idle" /\ frame'[t].result = "OkSome"
                         THEN <<frame[t].preferred_service>> ELSE PAUSED_PLAYERS
    /\ UNCHANGED <<holders, registered, op, pausedByUs, unresumed, calls>>

\* connection.call_method(Some(preferred_service), ..).await and, when it
\* fails, the entry into the fallback loop.
TogglePreferred(t) ==
    /\ pc[t] = "toggle_call"
    /\ LET f == frame[t]
           name == f.preferred_service
           next == NextFallback(f.mpris_services, name, 1)
       IN \E outcome \in CallOutcomes(registered, name) :
            /\ hist' = [hist EXCEPT ![t].sent =
                           Append(@, Dispatch("PlayPause", name, DispatchOk(outcome)))]
            /\ IF DispatchOk(outcome) THEN Return(t, "OkSome")
               ELSE IF next > Len(f.mpris_services) THEN Return(t, AllFailed(FALSE))
               ELSE /\ pc' = [pc EXCEPT ![t] = "fallback_probe"]
                    /\ frame' = [frame EXCEPT ![t].idx = next]
    /\ UNCHANGED <<PAUSED_PLAYERS, holders, registered, op, pausedByUs, unresumed, calls>>

\* is_player_playing(service_name_to_try).await.unwrap_or(false)
FallbackProbe(t) ==
    /\ pc[t] = "fallback_probe"
    /\ LET f == frame[t]
           name == f.mpris_services[f.idx]
       IN \E reply \in ProbeReplies(registered, name) :
            /\ hist' = [hist EXCEPT ![t].probed = Append(@, Probe(name, ProbedPlaying(reply)))]
            /\ frame' = [frame EXCEPT ![t].was_playing_fallback =
                                         UnwrapOrFalse(IsPlayerPlaying(reply))]
            /\ pc' = [pc EXCEPT ![t] = "fallback_call"]
    /\ UNCHANGED <<PAUSED_PLAYERS, holders, registered, op, pausedByUs, unresumed, calls>>

\* connection.call_method(Some(service_name_to_try), ..).await
FallbackCall(t) ==
    /\ pc[t] = "fallback_call"
    /\ LET f == frame[t]
           name == f.mpris_services[f.idx]
           next == NextFallback(f.mpris_services, f.preferred_service, f.idx + 1)
       IN \E outcome \in CallOutcomes(registered, name) :
            /\ hist' = [hist EXCEPT ![t].sent =
                           Append(@, Dispatch("PlayPause", name, DispatchOk(outcome)))]
            /\ IF DispatchOk(outcome) THEN Return(t, "OkSome")
               ELSE IF next > Len(f.mpris_services) THEN Return(t, AllFailed(TRUE))
               ELSE /\ pc' = [pc EXCEPT ![t] = "fallback_probe"]
                    /\ frame' = [frame EXCEPT ![t].idx = next, ![t].last_error = TRUE]
    /\ UNCHANGED <<PAUSED_PLAYERS, holders, registered, op, pausedByUs, unresumed, calls>>

\* ------------------------------------------------------------ the session bus

\* A player starts and takes its name on the bus.
Register(i) ==
    /\ i \notin registered
    /\ registered' = registered \cup {i}
    /\ hist' = [t \in Tasks |->
                  IF pc[t] = "idle" THEN hist[t] ELSE [hist[t] EXCEPT !.noPlayers = FALSE]]
    /\ UNCHANGED <<PAUSED_PLAYERS, holders, pc, op, frame, pausedByUs, unresumed, calls>>

\* A player exits and its name leaves the bus.
Unregister(i) ==
    /\ i \in registered
    /\ registered' = registered \ {i}
    /\ UNCHANGED <<PAUSED_PLAYERS, holders, pc, op, frame, hist, pausedByUs, unresumed, calls>>

\* ------------------------------------------------------------ specifications

Step(t) ==
    \/ SendPlay(t)
    \/ PlayDispatch(t)
    \/ PlayClear(t)
    \/ SendPause(t)
    \/ PauseProxy(t)
    \/ PauseList(t)
    \/ PauseProbe(t)
    \/ PauseDispatch(t)
    \/ PauseStore(t)
    \/ SendPlayPause(t)
    \/ ToggleProxy(t)
    \/ ToggleList(t)
    \/ ToggleProbe(t)
    \/ TogglePreferred(t)
    \/ FallbackProbe(t)
    \/ FallbackCall(t)

Bus == \E i \in Players : Register(i) \/ Unregister(i)

\* Any number of callers, their operations interleaved at every await.
Next == (\E t \in Tasks : Step(t)) \/ Bus

Spec == Init /\ [][Next]_vars

\* One caller: the operations run one after another, never overlapping.
SeqNext == Step(1) \/ Bus

SeqSpec == Init /\ [][SeqNext]_vars

\* The steps of an operation in flight: each is the return of one awaited
\* bus call or one uncontended lock statement.
Progress(t) ==
    \/ PlayDispatch(t)
    \/ PlayClear(t)
    \/ PauseProxy(t)
    \/ PauseList(t)
    \/ PauseProbe(t)
    \/ PauseDispatch(t)
    \/ PauseStore(t)
    \/ ToggleProxy(t)
    \/ ToggleList(t)
    \/ ToggleProbe(t)
    \/ TogglePreferred(t)
    \/ FallbackProbe(t)
    \/ FallbackCall(t)

\* One caller, and every bus call it awaits eventually returns.
FairSeqSpec == Init /\ [][SeqNext]_vars /\ WF_vars(Progress(1))

TypeOK ==
    /\ pausedByUs \subseteq {PlayerName(i) : i \in Players}
    /\ unresumed \subseteq pausedByUs
    /\ calls \in 0 .. MaxCalls

\* ------------------------------------------------------- reading a history

IsOk(d) == d.ok

IsPlaying(r) == r.playing

\* The players of a sequence of probes or dispatches, in order.
Targets(log) == [i \in 1 .. Len(log) |-> log[i].p]

\* The players a dispatch reached successfully, in order.
OkTargets(log) == Targets(SelectSeq(log, IsOk))

\* The players probed as Playing, in order.
PlayingProbes(log) == Targets(SelectSeq(log, IsPlaying))

Elems(seq) == {seq[i] : i \in 1 .. Len(seq)}

DirectoryIndex(name) == CHOOSE i \in 1 .. Len(PlayerIds) : PlayerName(i) = name

\* The sequence lists players in the order the bus lists them, each once.
InDirectoryOrder(seq) ==
    \A i, j \in 1 .. Len(seq) : i < j => DirectoryIndex(seq[i]) < DirectoryIndex(seq[j])

\* Task t has returned from an invocation of operation o.
Completed(t, o) == pc[t] = "idle" /\ op[t] = o

\* ----------------------------------------------------------------- claims

\* C1: when operations run one after another, every player that a
\* send_pause successfully paused has been sent Play by the time the next
\* send_play has returned; none is dropped without being sent Play.
C1_EveryPausedPlayerResumed ==
    \A t \in Tasks : Completed(t, "play") => unresumed = {}

\* C2: when all its Pause dispatches succeed, a send_pause has dispatched
\* Pause to exactly the players it probed as Playing, and if there was one
\* the Paused-Set after the call is exactly those players in directory order.
C2_SelectivePause ==
    \A t \in Tasks :
        (Completed(t, "pause") /\ \A i \in 1 .. Len(hist[t].sent) : hist[t].sent[i].ok)
        => /\ Targets(hist[t].sent) = PlayingProbes(hist[t].probed)
           /\ \A i \in 1 .. Len(hist[t].sent) : hist[t].sent[i].m = "Pause"
           /\ PlayingProbes(hist[t].probed) # <<>>
                => /\ PAUSED_PLAYERS = PlayingProbes(hist[t].probed)
                   /\ InDirectoryOrder(PAUSED_PLAYERS)

C2_Witness ==
    \E t \in Tasks :
        /\ Completed(t, "pause")
        /\ \A i \in 1 .. Len(hist[t].sent) : hist[t].sent[i].ok
        /\ \E i, j \in 1 .. Len(hist[t].probed) :
              hist[t].probed[i].playing /\ ~hist[t].probed[j].playing
        /\ PAUSED_PLAYERS = PlayingProbes(hist[t].probed)

\* C3: a failed Pause dispatch does not stop send_pause from probing the
\* remaining players, the player is not recorded, and the Paused-Set
\* written at the end is exactly the players whose Pause dispatch succeeded.
C3_PartialDispatchFailure ==
    \A t \in Tasks :
        /\ pc[t] = "pause_store"
             => /\ Targets(hist[t].probed) = frame[t].mpris_services
                /\ frame[t].paused_players = OkTargets(hist[t].sent)
        /\ (Completed(t, "pause") /\ OkTargets(hist[t].sent) # <<>>)
             => PAUSED_PLAYERS = OkTargets(hist[t].sent)

C3_Witness ==
    \E t \in Tasks :
        /\ Completed(t, "pause")
        /\ Len(hist[t].sent) = 2
        /\ ~hist[t].sent[1].ok
        /\ hist[t].sent[2].ok
        /\ PAUSED_PLAYERS = <<hist[t].sent[2].p>>

\* C4: send_play issues exactly one Play dispatch per element of the
\* Paused-Set it started from, in that order, whatever each dispatch's
\* outcome, and leaves the Paused-Set empty.
C4_ResumeReplaysRecorded ==
    \A t \in Tasks :
        Completed(t, "play")
        => /\ Targets(hist[t].sent) = hist[t].pausedAtStart
           /\ \A i \in 1 .. Len(hist[t].sent) : hist[t].sent[i].m = "Play"
           /\ PAUSED_PLAYERS = <<>>

C4_Witness ==
    \E t \in Tasks :
        /\ Completed(t, "play")
        /\ Len(hist[t].pausedAtStart) = 2
        /\ Len(hist[t].sent) = 2
        /\ ~hist[t].sent[1].ok
        /\ hist[t].sent[2].ok
        /\ PAUSED_PLAYERS = <<>>

\* C5: a send_play that follows a completed send_play with no send_pause
\* in between dispatches nothing and leaves the Paused-Set empty.
C5_NoDoubleResume ==
    \A t \in Tasks :
        (Completed(t, "play") /\ hist[t].prevOp = "play")
        => hist[t].sent = <<>> /\ PAUSED_PLAYERS = <<>>

C5_Witness ==
    \E t \in Tasks :
        /\ Completed(t, "play")
        /\ hist[t].prevOp = "play"
        /\ pausedByUs # {}
        /\ unresumed = {}
        /\ hist[t].sent = <<>>

\* C6: when send_pause runs twice with no send_play in between and the
\* second call pauses at least one player, the Paused-Set afterwards is
\* exactly the second call's list: no player of the first list is kept
\* unless the second call paused it too.
C6_OverwriteOnRepeatedPause ==
    \A t \in Tasks :
        (Completed(t, "pause") /\ hist[t].prevOp = "pause" /\ OkTargets(hist[t].sent) # <<>>)
        => /\ PAUSED_PLAYERS = OkTargets(hist[t].sent)
           /\ Elems(PAUSED_PLAYERS) \cap Elems(hist[t].pausedAtStart)
                 \subseteq Elems(OkTargets(hist[t].sent))

C6_Witness ==
    \E t \in Tasks :
        /\ Completed(t, "pause")
        /\ hist[t].prevOp = "pause"
        /\ hist[t].pausedAtStart # <<>>
        /\ OkTargets(hist[t].sent) # <<>>
        /\ Elems(hist[t].pausedAtStart) \cap Elems(PAUSED_PLAYERS) = {}

\* C7 as stated: with no player on the bus, send_pause, send_play and
\* send_play_pause each dispatch nothing and leave the Paused-Set as it was.
C7_EmptyDirectoryAllOperations ==
    \A t \in Tasks :
        (pc[t] = "idle" /\ op[t] \in {"pause", "play", "toggle"} /\ hist[t].noPlayers)
        => hist[t].sent = <<>> /\ PAUSED_PLAYERS = hist[t].pausedAtStart

\* C7 amended: with no player on the bus, send_pause and send_play_pause
\* dispatch nothing and leave the Paused-Set as it was, whatever it held;
\* send_play does so when the Paused-Set is empty at its start.
C7_EmptyDirectorySafety ==
    \A t \in Tasks :
        ( /\ pc[t] = "idle"
          /\ hist[t].noPlayers
          /\ \/ op[t] \in {"pause", "toggle"}
             \/ op[t] = "play" /\ hist[t].pausedAtStart = <<>> )
        => hist[t].sent = <<>> /\ PAUSED_PLAYERS = hist[t].pausedAtStart

C7_Witness ==
    \E t \in Tasks :
        /\ pc[t] = "idle"
        /\ op[t] \in {"pause", "toggle"}
        /\ hist[t].noPlayers
        /\ hist[t].discovery = "empty"
        /\ hist[t].pausedAtStart # <<>>
        /\ PAUSED_PLAYERS = hist[t].pausedAtStart

\* C8: under any interleaving of the three operations, every identity in
\* the Paused-Set is one that a send_pause probed as Playing and then
\* successfully dispatched Pause to.
C8_PausedSetInvariant ==
    \A i \in 1 .. Len(PAUSED_PLAYERS) : PAUSED_PLAYERS[i] \in pausedByUs

C8_Witness ==
    /\ PAUSED_PLAYERS # <<>>
    /\ \E t, u \in Tasks :
          /\ pc[t] = "pause_store" /\ frame[t].paused_players = <<>>
          /\ Len(hist[t].sent) > 0
          /\ pc[u] \in {"toggle_call", "fallback_call"}

\* C9 as stated: a send_pause that discovers a player but ends with an
\* empty working list leaves the Paused-Set empty.
C9_EmptyWorkingListClears ==
    \A t \in Tasks :
        (Completed(t, "pause") /\ hist[t].discovery = "found" /\ OkTargets(hist[t].sent) = <<>>)
        => PAUSED_PLAYERS = <<>>

\* C9 amended: a send_pause that discovers a player but ends with an empty
\* working list leaves the Paused-Set as it was before the call.
C9_EmptyWorkingListKeeps ==
    \A t \in Tasks :
        (Completed(t, "pause") /\ hist[t].discovery = "found" /\ OkTargets(hist[t].sent) = <<>>)
        => PAUSED_PLAYERS = hist[t].pausedAtStart

C9_Witness ==
    \E t \in Tasks :
        /\ Completed(t, "pause")
        /\ hist[t].discovery = "found"
        /\ hist[t].sent # <<>>
        /\ OkTargets(hist[t].sent) = <<>>
        /\ hist[t].pausedAtStart # <<>>
        /\ PAUSED_PLAYERS = hist[t].pausedAtStart

\* C10: under any interleaving, every dispatch of a send_play is a Play to
\* an identity that an earlier send_pause successfully paused and that was
\* in the Paused-Set the send_play read at its start; a send_play never
\* discovers or probes players.
C10_PlayOnlyToPaused ==
    \A t \in Tasks :
        op[t] = "play"
        => /\ \A i \in 1 .. Len(hist[t].sent) :
                 /\ hist[t].sent[i].m = "Play"
                 /\ hist[t].sent[i].p \in pausedByUs
                 /\ hist[t].sent[i].p \in Elems(hist[t].pausedAtStart)
           /\ hist[t].probed = <<>>
           /\ hist[t].discovery = "none"
           /\ frame[t].mpris_services = <<>>

C10_Witness ==
    \E t \in Tasks :
        /\ op[t] = "play"
        /\ pc[t] = "play_clear"
        /\ hist[t].sent # <<>>
        /\ PAUSED_PLAYERS # <<>>
        /\ PAUSED_PLAYERS # hist[t].pausedAtStart

\* C11: send_play_pause sends its first PlayPause to the first player, in
\* directory order, that probes as Playing; when no discovered player
\* probes as Playing (failed probes included) it sends it to the first
\* discovered player.
C11_ToggleTargetSelection ==
    \A t \in Tasks :
        op[t] = "toggle"
        => /\ pc[t] = "toggle_call"
                => LET f == frame[t]
                       scan == hist[t].probed
                   IN /\ Targets(scan) = SubSeq(f.mpris_services, 1, Len(scan))
                      /\ InDirectoryOrder(f.mpris_services)
                      /\ hist[t].sent = <<>>
                      /\ IF PlayingProbes(scan) # <<>>
                         THEN /\ f.preferred_service = PlayingProbes(scan)[1]
                              /\ Len(PlayingProbes(scan)) = 1
                              /\ scan[Len(scan)].playing
                              /\ f.was_playing
                         ELSE /\ Len(scan) = Len(f.mpris_services)
                              /\ f.preferred_service = f.mpris_services[1]
                              /\ ~f.was_playing
           /\ pc[t] \in {"fallback_probe", "fallback_call"}
                => hist[t].sent[1] = Dispatch("PlayPause", frame[t].preferred_service, FALSE)
           /\ (pc[t] = "idle" /\ Len(hist[t].sent) = 1)
                => /\ hist[t].sent[1].m = "PlayPause"
                   /\ hist[t].sent[1].p =
                         IF PlayingProbes(hist[t].probed) # <<>>
                         THEN PlayingProbes(hist[t].probed)[1]
                         ELSE hist[t].probed[1].p

C11_Witness ==
    \E t \in Tasks :
        /\ Completed(t, "toggle")
        /\ Len(hist[t].probed) = 2
        /\ ~hist[t].probed[1].playing
        /\ hist[t].probed[2].playing
        /\ hist[t].sent = <<Dispatch("PlayPause", hist[t].probed[2].p, TRUE)>>

NoDuplicates(seq) == \A i, j \in 1 .. Len(seq) : seq[i] = seq[j] => i = j

C16_LockDiscipline ==
    /\ Cardinality(holders) <= 1
    /\ \A t \in Tasks :
          /\ pc[t] # "idle" => t \notin holders
          /\ pc[t] = "idle" => t \notin holders
          /\ pc[t] \in {"play_clear", "pause_store"} => CanLock

C16_Witness ==
    \E t, u \in Tasks :
        /\ pc[t] = "play_loop"
        /\ Len(hist[t].sent) = 1
        /\ pc[u] = "pause_store"
        /\ frame[u].paused_players # <<>>
        /\ CanLock

\* C13: send_play_pause leaves the Paused-Set as it found it, throughout
\* the call and for every outcome, and what it dispatches is determined
\* by its own discovery and probes, whatever the Paused-Set holds.
C13_ToggleStateless ==
    \A t \in Tasks :
        op[t] = "toggle"
        => /\ PAUSED_PLAYERS = hist[t].pausedAtStart
           /\ frame[t].paused_players = <<>>
           /\ Elems(Targets(hist[t].sent)) \subseteq Elems(Targets(hist[t].probed))

C13_Witness ==
    \E t \in Tasks :
        /\ Completed(t, "toggle")
        /\ frame[t].result = "OkSome"
        /\ hist[t].probed[1].playing
        /\ PAUSED_PLAYERS # <<>>
        /\ hist[t].sent[1].p \notin Elems(PAUSED_PLAYERS)

\* C14 as stated: an operation that could not reach the bus, or whose
\* name listing failed, returns with no successful dispatch and with the
\* Paused-Set as it was before the call.
C14_ErrorsNoEffect ==
    \A t \in Tasks :
        /\ pc[t] = "idle"
        /\ op[t] \in {"pause", "play", "toggle"}
        /\ \/ hist[t].discovery = "error"
           \/ op[t] = "play" /\ hist[t].sent # <<>> /\ ~hist[t].connected
        => /\ OkTargets(hist[t].sent) = <<>>
           /\ PAUSED_PLAYERS = hist[t].pausedAtStart

\* C14: a send_pause or send_play_pause whose connection, proxy or name
\* listing failed returns having probed and dispatched nothing and with
\* the Paused-Set unchanged; a send_play that never reached the bus has
\* attempted every recorded player, none successfully, and has cleared
\* the Paused-Set.
C14_ErrorsAbort ==
    \A t \in Tasks :
        /\ (op[t] \in {"pause", "toggle"} /\ hist[t].discovery = "error"
            => /\ pc[t] = "idle"
               /\ hist[t].probed = <<>>
               /\ hist[t].sent = <<>>
               /\ PAUSED_PLAYERS = hist[t].pausedAtStart)
        /\ (op[t] = "play" /\ ~hist[t].connected
            => /\ OkTargets(hist[t].sent) = <<>>
               /\ (pc[t] = "idle" /\ hist[t].sent # <<>>
                   => /\ Targets(hist[t].sent) = hist[t].pausedAtStart
                      /\ PAUSED_PLAYERS = <<>>))

C14_Witness ==
    \E t \in Tasks :
        /\ Completed(t, "play")
        /\ ~hist[t].connected
        /\ Len(hist[t].sent) = 2
        /\ hist[t].prevOp = "pause"

\* C15: provided each bus call eventually returns, an operation in flight
\* eventually returns to its caller, whatever failed along the way.
C15_EveryOperationReturns ==
    \A t \in Tasks : (pc[t] # "idle") ~> (pc[t] = "idle")

C15_Witness ==
    \E t \in Tasks :
        /\ Completed(t, "toggle")
        /\ frame[t].result = "Err"
        /\ Len(hist[t].sent) = 2
        /\ \E i \in 1 .. Len(hist[t].probed) : ~hist[t].probed[i].playing

\* The replies a PlaybackStatus read can give other than the string Playing.
NotPlayingReplies ==
    ErrorReplies \cup {r \in ValueReplies : r # [kind |-> "Str", val |-> "Playing"]}

\* C17: a probe that fails, or reads anything but the string Playing,
\* counts as not playing. In send_pause such a player is never sent
\* Pause and never put on the working list, and the players after it are
\* still probed; in send_play_pause the search goes on past it, falls
\* back to the first player when nothing is Playing, and a toggle that
\* found players always dispatches.
C17_ProbeFailuresFold ==
    /\ \A reply \in NotPlayingReplies :
          /\ ~WasPlaying(IsPlayerPlaying(reply))
          /\ ~UnwrapOrFalse(IsPlayerPlaying(reply))
    /\ \A t \in Tasks :
          /\ op[t] = "pause"
             => /\ \A i \in 1 .. Len(hist[t].probed) :
                      ~hist[t].probed[i].playing
                      => /\ hist[t].probed[i].p \notin Elems(Targets(hist[t].sent))
                         /\ hist[t].probed[i].p \notin Elems(frame[t].paused_players)
                /\ pc[t] = "pause_probe"
                      => Targets(hist[t].probed)
                            = SubSeq(frame[t].mpris_services, 1, frame[t].idx - 1)
                /\ pc[t] = "pause_store"
                      => Targets(hist[t].probed) = frame[t].mpris_services
          /\ op[t] = "toggle"
             => /\ pc[t] = "toggle_probe"
                      => /\ Targets(hist[t].probed)
                               = SubSeq(frame[t].mpris_services, 1, frame[t].idx - 1)
                         /\ PlayingProbes(hist[t].probed) = <<>>
                /\ pc[t] = "toggle_call" /\ ~frame[t].was_playing
                      => /\ Targets(hist[t].probed) = frame[t].mpris_services
                         /\ PlayingProbes(hist[t].probed) = <<>>
                         /\ frame[t].preferred_service = frame[t].mpris_services[1]
                /\ pc[t] = "idle" /\ hist[t].discovery = "found"
                      => hist[t].sent # <<>>

C17_Witness ==
    \E t \in Tasks :
        /\ op[t] = "pause"
        /\ pc[t] = "pause_store"
        /\ Len(hist[t].probed) = 2
        /\ ~hist[t].probed[1].playing
        /\ ~IsRegistered(registered, hist[t].probed[1].p)
        /\ hist[t].probed[2].playing
        /\ frame[t].paused_players = <<hist[t].probed[2].p>>

\* C18: in every interleaving the Paused-Set changes only by being
\* emptied or by being replaced, in one step, with the working list of a
\* single send_pause that has finished its loop over every listed player:
\* the players its own Pause dispatches reached. It never holds a list
\* still being built or the lists of two invocations merged.
C18_PausedSetAtomic ==
    [][PAUSED_PLAYERS' # PAUSED_PLAYERS
         => \/ PAUSED_PLAYERS' = <<>>
            \/ \E t \in Tasks :
                  /\ op[t] = "pause"
                  /\ pc[t] = "pause_store"
                  /\ pc'[t] = "idle"
                  /\ PAUSED_PLAYERS' = frame[t].paused_players
                  /\ frame[t].paused_players = OkTargets(hist[t].sent)
                  /\ Targets(hist[t].probed) = frame[t].mpris_services]_vars

C18_Witness ==
    \E t, u \in Tasks :
        /\ Completed(t, "pause")
        /\ PAUSED_PLAYERS # <<>>
        /\ PAUSED_PLAYERS = OkTargets(hist[t].sent)
        /\ hist[t].pausedAtStart # <<>>
        /\ Elems(hist[t].pausedAtStart) \cap Elems(PAUSED_PLAYERS) = {}
        /\ pc[u] = "play_loop"
        /\ frame[u].paused_players = hist[t].pausedAtStart

\* C19: whenever a send_play clears the Paused-Set, every player in the
\* set at that moment was sent Play by that same send_play.
C19_ClearRemovesOnlyResumed ==
    [][\A t \in Tasks :
          pc[t] = "play_clear" /\ pc'[t] = "idle"
          => Elems(PAUSED_PLAYERS) \subseteq Elems(Targets(hist[t].sent))]_vars

\* C20: two send_play invocations in flight together that started from
\* the same Paused-Set send no player Play twice between them.
C20_NoDuplicatePlay ==
    \A t, u \in Tasks :
        /\ t # u
        /\ op[t] = "play" /\ pc[t] # "idle"
        /\ op[u] = "play" /\ pc[u] # "idle"
        /\ hist[t].pausedAtStart = hist[u].pausedAtStart
        => Elems(Targets(hist[t].sent)) \cap Elems(Targets(hist[u].sent)) = {}

====
